---- MODULE Spec2Model ----
(***************************************************************************)
(* A model of the divide-and-conquer library: mergesort.py (mergesort,     *)
(* merge), closestpoints.py (closest_pair, _closest_pair, merge,           *)
(* distance), karatsuba.py (karatsuba, _karatsuba, _split_int) and         *)
(* strassen.py (strassen, _strassen, _pad, _quadrants,                     *)
(* _next_power_of_two).                                                    *)
(*                                                                         *)
(* Python lists and tuples are sequences (1-based here, 0-based in the     *)
(* source).  Recursion whose termination is in question (mergesort) and    *)
(* recursion whose intermediate returns are observed (_closest_pair) is    *)
(* modelled with an explicit call stack, one action per step of a frame.   *)
(***************************************************************************)
EXTENDS Integers, Sequences, FiniteSets, TLC

VARIABLES
    ms_l,        \* mergesort: the list the caller passes
    ms_stack,    \* mergesort: the call stack, innermost frame last
    ms_status,   \* mergesort: "idle" | "running" | "returned" | "RecursionError"
    ms_result,   \* mergesort: the value returned to the caller
    mg_fn,       \* merge: which merge is called ("mergesort" | "closestpoints")
    mg_a,        \* merge: first argument
    mg_b,        \* merge: second argument
    mg_status,   \* merge: "idle" | "returned"
    mg_result,   \* merge: the returned list
    cp_points,   \* closest_pair: the list the caller passes
    cp_stack,    \* _closest_pair: the call stack, innermost frame last
    cp_status,   \* closest_pair: "idle" | "running" | "returned" | "AssertionError"
    cp_result,   \* closest_pair: the pair (p, q) returned to the caller
    cp_ret,      \* _closest_pair: the call that returned last, with its three values
    k_x,         \* karatsuba: first operand
    k_y,         \* karatsuba: second operand
    k_status,    \* karatsuba: "idle" | "returned" | "AssertionError"
    k_result,    \* karatsuba: the returned product
    st_A,        \* strassen: first matrix
    st_B,        \* strassen: second matrix
    st_status,   \* strassen: "idle" | "returned" | "AssertionError"
    st_result,   \* strassen: the returned matrix
    kc_x,        \* karatsuba, call by call: first operand
    kc_y,        \* karatsuba, call by call: second operand
    kc_stack,    \* _karatsuba: the call stack, innermost frame last
    kc_status,   \* karatsuba, call by call: "idle" | "running" | "returned" | "AssertionError"
    kc_result,   \* karatsuba, call by call: the returned product
    fr_fn,       \* list objects: the function called ("mergesort" | "merge" | "cp_merge" | "closest_pair")
    fr_heap,     \* list objects: the content of every list object, by identity
    fr_args,     \* list objects: the identities of the lists passed in
    fr_before,   \* list objects: fr_heap as it was when the call was made
    fr_status,   \* list objects: "idle" | "returned"
    fr_ret       \* list objects: what the call returned

ms_vars == <<ms_l, ms_stack, ms_status, ms_result>>
mg_vars == <<mg_fn, mg_a, mg_b, mg_status, mg_result>>
cp_vars == <<cp_points, cp_stack, cp_status, cp_result, cp_ret>>
k_vars == <<k_x, k_y, k_status, k_result>>
st_vars == <<st_A, st_B, st_status, st_result>>
kc_vars == <<kc_x, kc_y, kc_stack, kc_status, kc_result>>
fr_vars == <<fr_fn, fr_heap, fr_args, fr_before, fr_status, fr_ret>>

vars == <<ms_vars, mg_vars, cp_vars, k_vars, st_vars, kc_vars, fr_vars>>

(***************************************************************************)
(* Bounds of the model.                                                    *)
(***************************************************************************)
\* Largest numeric value of a list element.
MaxVal == 2
\* Longest list handed to mergesort.
MaxLen == 4
\* Longest list handed to either merge.
MaxMergeLen == 3
\* Depth of the interpreter's call stack at which a call raises RecursionError
\* (sys.getrecursionlimit(), scaled down).
MaxDepth == 6
\* Generic points lie on the grid 0..MaxX by 0..MaxY.
MaxX == 1
MaxY == 1
\* Longest list of grid points handed to closest_pair.
MaxPts == 4
\* Largest operand handed to karatsuba.
MaxInt == 130
\* Largest operand handed to karatsuba when its calls are followed one by one.
MaxCallInt == 40
\* Largest side of a matrix handed to strassen.
MaxN == 3
\* Most cells of such a matrix that are not 0, and their largest magnitude.
MaxNonZero == 2
MaxCell == 1

(***************************************************************************)
(* Generic helpers.                                                        *)
(***************************************************************************)
SeqsUpTo(S, n) == UNION {[1..k -> S] : k \in 0..n}

\* The number of positions of s holding e.
Count(s, e) == Cardinality({i \in 1..Len(s) : s[i] = e})

\* s and t hold the same elements with the same multiplicities.
SameBag(s, t) ==
    /\ Len(s) = Len(t)
    /\ \A i \in 1..Len(s) : Count(s, s[i]) = Count(t, s[i])

\* Python slices l[:k] and l[k:] (k counted in elements).
Take(l, k) == SubSeq(l, 1, k)
Drop(l, k) == SubSeq(l, k + 1, Len(l))

(***************************************************************************)
(* mergesort.py                                                            *)
(***************************************************************************)
\* List elements are Python numbers: an int and a float of the same value
\* compare equal under <= and are still different objects (1 and 1.0).
Kinds == {"int", "float"}
Elems == [v : 0..MaxVal, t : Kinds]

\* x <= y on numbers (mergesort.py:41).
LE(x, y) == x.v <= y.v

\* s is non-decreasing under <=.
IsSorted(s) == \A i \in 1..(Len(s) - 1) : LE(s[i], s[i + 1])

\* merge, line 41: the head of a is taken when a[0] <= b[0].
merge_takes_a_strict(a, b) == ~LE(b[1], a[1])
merge_takes_a(a, b) == LE(a[1], b[1])

\* merge, lines 50-53: the leftover of whichever list is not empty is appended.
merge_rest_drop_b(result, a, b) == result \o a
merge_rest(result, a, b) == IF a # <<>> THEN result \o a ELSE result \o b

\* merge, lines 38-55: the while loop, then the leftover.
RECURSIVE merge_loop(_, _, _)
merge_loop(result, a, b) ==
    IF a # <<>> /\ b # <<>>
    THEN IF merge_takes_a(a, b)
         THEN merge_loop(Append(result, a[1]), Tail(a), b)
         ELSE merge_loop(Append(result, b[1]), a, Tail(b))
    ELSE merge_rest(result, a, b)

merge(a, b) == merge_loop(<<>>, a, b)

\* mergesort, line 25: mid = int(len(l) / 2).
ms_mid(l) == Len(l) \div 2

\* mergesort, line 26: a, b = l[:mid], l[mid:].
ms_first_half(l) == Take(l, ms_mid(l))
ms_second_half_skip(l) == Drop(l, ms_mid(l) + 1)
ms_second_half(l) == Drop(l, ms_mid(l))

\* A frame of mergesort: its argument l, where it stands, and its locals a, b.
ms_Frame(l) == [l |-> l, pc |-> "entry", a |-> <<>>, b |-> <<>>]

ms_top == ms_stack[Len(ms_stack)]
ms_caller == ms_stack[Len(ms_stack) - 1]

\* The innermost frame returns value: to its caller's a or b, or to the outside.
ms_Return(value) ==
    IF Len(ms_stack) = 1
    THEN /\ ms_stack' = <<>>
         /\ ms_status' = "returned"
         /\ ms_result' = value
         /\ UNCHANGED ms_l
    ELSE /\ ms_stack' =
              Take(ms_stack, Len(ms_stack) - 2) \o
              << IF ms_caller.pc = "wait_a"
                 THEN [ms_caller EXCEPT !.a = value, !.pc = "have_a"]
                 ELSE [ms_caller EXCEPT !.b = value, !.pc = "have_b"] >>
         /\ UNCHANGED <<ms_l, ms_status, ms_result>>

\* The caller calls mergesort(l).
MS_Call ==
    /\ ms_status = "idle"
    /\ ms_stack' = <<ms_Frame(ms_l)>>
    /\ ms_status' = "running"
    /\ UNCHANGED <<ms_l, ms_result>>
    /\ UNCHANGED <<mg_vars, cp_vars, k_vars, st_vars, kc_vars, fr_vars>>

\* Lines 22-23: a list of length 1 is returned as it is.
MS_Base ==
    /\ ms_status = "running"
    /\ Len(ms_stack) <= MaxDepth
    /\ ms_top.pc = "entry"
    /\ Len(ms_top.l) = 1
    /\ ms_Return(ms_top.l)
    /\ UNCHANGED <<mg_vars, cp_vars, k_vars, st_vars, kc_vars, fr_vars>>

\* Lines 25-27: split at mid and call mergesort on the first half.
MS_Split ==
    /\ ms_status = "running"
    /\ Len(ms_stack) <= MaxDepth
    /\ ms_top.pc = "entry"
    /\ Len(ms_top.l) # 1
    /\ LET a == ms_first_half(ms_top.l)
           b == ms_second_half(ms_top.l)
       IN ms_stack' = Take(ms_stack, Len(ms_stack) - 1) \o
              << [ms_top EXCEPT !.pc = "wait_a", !.a = a, !.b = b],
                 ms_Frame(a) >>
    /\ UNCHANGED <<ms_l, ms_status, ms_result>>
    /\ UNCHANGED <<mg_vars, cp_vars, k_vars, st_vars, kc_vars, fr_vars>>

\* Line 28: call mergesort on the second half.
MS_CallB ==
    /\ ms_status = "running"
    /\ ms_top.pc = "have_a"
    /\ ms_stack' = Take(ms_stack, Len(ms_stack) - 1) \o
           << [ms_top EXCEPT !.pc = "wait_b"], ms_Frame(ms_top.b) >>
    /\ UNCHANGED <<ms_l, ms_status, ms_result>>
    /\ UNCHANGED <<mg_vars, cp_vars, k_vars, st_vars, kc_vars, fr_vars>>

\* Line 29: return merge(a, b).
MS_Merge ==
    /\ ms_status = "running"
    /\ ms_top.pc = "have_b"
    /\ ms_Return(merge(ms_top.a, ms_top.b))
    /\ UNCHANGED <<mg_vars, cp_vars, k_vars, st_vars, kc_vars, fr_vars>>

\* A call entered deeper than the interpreter allows raises RecursionError,
\* which no frame of mergesort catches.
MS_RecursionError ==
    /\ ms_status = "running"
    /\ Len(ms_stack) > MaxDepth
    /\ ms_top.pc = "entry"
    /\ ms_stack' = <<>>
    /\ ms_status' = "RecursionError"
    /\ UNCHANGED <<ms_l, ms_result>>
    /\ UNCHANGED <<mg_vars, cp_vars, k_vars, st_vars, kc_vars, fr_vars>>

(***************************************************************************)
(* closestpoints.py                                                        *)
(***************************************************************************)
\* A point is the tuple <<x, y>>: pt[0] is p[1] here and pt[1] is p[2].
\* None, where _closest_pair returns it for a point (line 37).
None == <<>>

\* math.inf (lines 53, 58): distances are >= 0, so -1 is free to stand for it.
Inf == -1

\* d1 <= d2 and d1 < d2 on distances that may be math.inf.
dist_le(d1, d2) == d2 = Inf \/ (d1 # Inf /\ d1 <= d2)
dist_lt(d1, d2) == d1 # Inf /\ (d2 = Inf \/ d1 < d2)

\* distance, lines 118-119: the squared Euclidean distance.
distance(p, q) == (p[1] - q[1]) * (p[1] - q[1]) + (p[2] - q[2]) * (p[2] - q[2])

\* sorted(points, key=lambda pt: pt[k]), lines 17 and 32: Python's sort is
\* stable, so each element goes behind the elements whose key is <= its own.
sorted_insert(acc, e, k) ==
    LET n == Cardinality({i \in 1..Len(acc) : acc[i][k] <= e[k]})
    IN Take(acc, n) \o <<e>> \o Drop(acc, n)

RECURSIVE sorted_acc(_, _, _)
sorted_acc(acc, rest, k) ==
    IF rest = <<>> THEN acc
    ELSE sorted_acc(sorted_insert(acc, rest[1], k), Tail(rest), k)

sorted_by(points, k) == sorted_acc(<<>>, points, k)

\* merge, line 102: the head of a is taken when a[0][1] <= b[0][1].
cp_merge_takes_a_by_x(a, b) == a[1][1] <= b[1][1]
cp_merge_takes_a(a, b) == a[1][2] <= b[1][2]

\* merge, lines 99-115.
RECURSIVE cp_merge_loop(_, _, _)
cp_merge_loop(result, a, b) ==
    IF a # <<>> /\ b # <<>>
    THEN IF cp_merge_takes_a(a, b)
         THEN cp_merge_loop(Append(result, a[1]), Tail(a), b)
         ELSE cp_merge_loop(Append(result, b[1]), a, Tail(b))
    ELSE IF a # <<>> THEN result \o a ELSE result \o b

cp_merge(a, b) == cp_merge_loop(<<>>, a, b)

\* _closest_pair, lines 49-68: the better of the two halves' pairs, a half
\* that returned None counting as infinitely far apart.
best_of_halves(left, right) ==
    LET d_left == IF left.p = None THEN Inf ELSE distance(left.p, left.q)
        d_right == IF right.p = None THEN Inf ELSE distance(right.p, right.q)
    IN IF dist_le(d_left, d_right)
       THEN [d |-> d_left, p |-> left.p, q |-> left.q]
       ELSE [d |-> d_right, p |-> right.p, q |-> right.q]

\* _closest_pair, line 78: the points of y_sorted whose x lies within best_d
\* (the squared distance that distance returns) of the median.
in_strip(p, median, best_d) ==
    best_d = Inf \/ (median - best_d <= p[1] /\ p[1] <= median + best_d)

make_strip(y_sorted, median, best_d) ==
    LET keep(p) == in_strip(p, median, best_d)
    IN SelectSeq(y_sorted, keep)

\* _closest_pair, line 80: strip[idx+1:idx+8] holds the next 7 points.
strip_window == 7

\* _closest_pair, lines 84-87: the pair is stored with the smaller x first.
strip_pair_as_found(q1, q2) == <<q1, q2>>
strip_pair(q1, q2) == IF q1[1] <= q2[1] THEN <<q1, q2>> ELSE <<q2, q1>>

\* _closest_pair, lines 80-87: the inner loop for q1 = strip[i].  q2 runs
\* over strip[idx+1:idx+8]; strip[j] replaces the best pair when it is nearer
\* to q1 than the best on entry and than every q2 before it, and the last
\* such j is the one that stays.
strip_inner(best, strip, i) ==
    LET last == IF i + strip_window < Len(strip) THEN i + strip_window ELSE Len(strip)
        d(j) == distance(strip[i], strip[j])
        updates == {j \in (i + 1)..last :
                       /\ dist_lt(d(j), best.d)
                       /\ \A k \in (i + 1)..(j - 1) : d(j) < d(k)}
    IN IF updates = {} THEN best
       ELSE LET j == CHOOSE u \in updates : \A w \in updates : w <= u
                pq == strip_pair(strip[i], strip[j])
            IN [d |-> d(j), p |-> pq[1], q |-> pq[2]]

\* _closest_pair, lines 79-87: the outer loop, from strip[i] on.
RECURSIVE strip_search(_, _, _)
strip_search(best, strip, i) ==
    IF i > Len(strip) THEN best
    ELSE strip_search(strip_inner(best, strip, i), strip, i + 1)

\* _closest_pair, line 41: midpoint = int(len(points) / 2).
cp_midpoint(points) == Len(points) \div 2

\* _closest_pair, lines 29-32: two points are the pair, and are sorted by y.
base2_ys(points) == sorted_by(points, 2)

\* _closest_pair, lines 47-89: the combine step of a call on points whose
\* halves returned left and right, with the strip it searched.
combine(points, left, right) ==
    LET halves == best_of_halves(left, right)
        y_sorted == cp_merge(left.ys, right.ys)
        median == points[cp_midpoint(points) + 1][1]
        strip == make_strip(y_sorted, median, halves.d)
        best == strip_search(halves, strip, 1)
    IN [p |-> best.p, q |-> best.q, ys |-> y_sorted,
        strip |-> strip, halves_d |-> halves.d, best_d |-> best.d]

\* A frame of _closest_pair: its argument, where it stands, and what its two
\* recursive calls returned.
cp_NoValue == [p |-> None, q |-> None, ys |-> <<>>]
cp_Frame(points) ==
    [points |-> points, pc |-> "entry", left |-> cp_NoValue, right |-> cp_NoValue]

cp_top == cp_stack[Len(cp_stack)]
cp_caller == cp_stack[Len(cp_stack) - 1]

\* The innermost frame returns (p, q, ys): to its caller, or to closest_pair,
\* which returns (p, q) (lines 17-18).
cp_Return(p, q, ys) ==
    /\ cp_ret' = [points |-> cp_top.points, p |-> p, q |-> q, ys |-> ys]
    /\ IF Len(cp_stack) = 1
       THEN /\ cp_stack' = <<>>
            /\ cp_status' = "returned"
            /\ cp_result' = <<p, q>>
       ELSE /\ cp_stack' =
                 Take(cp_stack, Len(cp_stack) - 2) \o
                 << IF cp_caller.pc = "wait_left"
                    THEN [cp_caller EXCEPT !.left = [p |-> p, q |-> q, ys |-> ys],
                                           !.pc = "have_left"]
                    ELSE [cp_caller EXCEPT !.right = [p |-> p, q |-> q, ys |-> ys],
                                           !.pc = "have_right"] >>
            /\ UNCHANGED <<cp_status, cp_result>>
    /\ UNCHANGED cp_points

\* closest_pair, lines 14-17: at least two points, then _closest_pair on the
\* points sorted by x.
CP_Call ==
    /\ cp_status = "idle"
    /\ Len(cp_points) >= 2
    /\ cp_stack' = <<cp_Frame(sorted_by(cp_points, 1))>>
    /\ cp_status' = "running"
    /\ UNCHANGED <<cp_points, cp_result, cp_ret>>
    /\ UNCHANGED <<ms_vars, mg_vars, k_vars, st_vars, kc_vars, fr_vars>>

\* closest_pair, line 14: fewer than two points fail the assertion.
CP_AssertFail ==
    /\ cp_status = "idle"
    /\ Len(cp_points) < 2
    /\ cp_status' = "AssertionError"
    /\ UNCHANGED <<cp_points, cp_stack, cp_result, cp_ret>>
    /\ UNCHANGED <<ms_vars, mg_vars, k_vars, st_vars, kc_vars, fr_vars>>

\* _closest_pair, lines 29-32.
CP_Base2 ==
    /\ cp_status = "running"
    /\ cp_top.pc = "entry"
    /\ Len(cp_top.points) = 2
    /\ cp_Return(cp_top.points[1], cp_top.points[2], base2_ys(cp_top.points))
    /\ UNCHANGED <<ms_vars, mg_vars, k_vars, st_vars, kc_vars, fr_vars>>

\* _closest_pair, lines 33-37.
CP_Base1 ==
    /\ cp_status = "running"
    /\ cp_top.pc = "entry"
    /\ Len(cp_top.points) = 1
    /\ cp_Return(None, None, cp_top.points)
    /\ UNCHANGED <<ms_vars, mg_vars, k_vars, st_vars, kc_vars, fr_vars>>

\* _closest_pair, lines 41-44: split at the midpoint, recurse into the left.
CP_Split ==
    /\ cp_status = "running"
    /\ cp_top.pc = "entry"
    /\ Len(cp_top.points) \notin {1, 2}
    /\ cp_stack' = Take(cp_stack, Len(cp_stack) - 1) \o
           << [cp_top EXCEPT !.pc = "wait_left"],
              cp_Frame(Take(cp_top.points, cp_midpoint(cp_top.points))) >>
    /\ UNCHANGED <<cp_points, cp_status, cp_result, cp_ret>>
    /\ UNCHANGED <<ms_vars, mg_vars, k_vars, st_vars, kc_vars, fr_vars>>

\* _closest_pair, line 45: recurse into the right half.
CP_CallRight ==
    /\ cp_status = "running"
    /\ cp_top.pc = "have_left"
    /\ cp_stack' = Take(cp_stack, Len(cp_stack) - 1) \o
           << [cp_top EXCEPT !.pc = "wait_right"],
              cp_Frame(Drop(cp_top.points, cp_midpoint(cp_top.points))) >>
    /\ UNCHANGED <<cp_points, cp_status, cp_result, cp_ret>>
    /\ UNCHANGED <<ms_vars, mg_vars, k_vars, st_vars, kc_vars, fr_vars>>

\* _closest_pair, lines 47-89: the combine step.
CP_Combine ==
    /\ cp_status = "running"
    /\ cp_top.pc = "have_right"
    /\ LET c == combine(cp_top.points, cp_top.left, cp_top.right)
       IN cp_Return(c.p, c.q, c.ys)
    /\ UNCHANGED <<ms_vars, mg_vars, k_vars, st_vars, kc_vars, fr_vars>>

(***************************************************************************)
(* karatsuba.py                                                            *)
(***************************************************************************)
\* int.bit_length(): the number of binary digits of n >= 0.
RECURSIVE bit_length(_)
bit_length(n) == IF n = 0 THEN 0 ELSE 1 + bit_length(n \div 2)

\* n << k and n >> k on non-negative integers.
shl(n, k) == n * (2 ^ k)
shr(n, k) == n \div (2 ^ k)

\* m & n on non-negative integers, bit by bit.
RECURSIVE bit_and(_, _)
bit_and(m, n) ==
    IF m = 0 \/ n = 0 THEN 0
    ELSE (m % 2) * (n % 2) + 2 * bit_and(m \div 2, n \div 2)

\* _split_int, lines 56-58: a = n >> l, b = ((2 ** l) - 1) & n.
_split_int_mask_short(n, l) == <<shr(n, l), bit_and((2 ^ l) - 2, n)>>
_split_int(n, l) == <<shr(n, l), bit_and((2 ^ l) - 1, n)>>

\* _karatsuba, lines 22-46.
RECURSIVE _karatsuba(_, _)
_karatsuba(x, y) ==
    LET x_l == bit_length(x)
        y_l == bit_length(y)
    IN IF x_l = 0 \/ y_l = 0 THEN 0
       ELSE IF x_l = 1 THEN y
       ELSE IF y_l = 1 THEN x
       ELSE LET n == IF x_l >= y_l THEN x_l ELSE y_l
                half_n == n \div 2
                ab == _split_int(x, half_n)
                cd == _split_int(y, half_n)
                ac == _karatsuba(ab[1], cd[1])
                bd == _karatsuba(ab[2], cd[2])
                zz == _karatsuba(ab[1] + ab[2], cd[1] + cd[2]) - ac - bd
            IN shl(ac, shl(half_n, 1)) + shl(zz, half_n) + bd

\* karatsuba, lines 14-18: both operands are non-negative integers.
K_Call ==
    /\ k_status = "idle"
    /\ k_x >= 0
    /\ k_y >= 0
    /\ k_result' = _karatsuba(k_x, k_y)
    /\ k_status' = "returned"
    /\ UNCHANGED <<k_x, k_y>>
    /\ UNCHANGED <<ms_vars, mg_vars, cp_vars, st_vars, kc_vars, fr_vars>>

\* karatsuba, lines 14-15: a negative operand fails the assertion.
K_AssertFail ==
    /\ k_status = "idle"
    /\ (k_x < 0 \/ k_y < 0)
    /\ k_status' = "AssertionError"
    /\ UNCHANGED <<k_x, k_y, k_result>>
    /\ UNCHANGED <<ms_vars, mg_vars, cp_vars, st_vars, kc_vars, fr_vars>>

\* _karatsuba, lines 35-36: n = max(x_l, y_l), half_n = int(n/2).
k_n(x, y) == IF bit_length(x) >= bit_length(y) THEN bit_length(x) ELSE bit_length(y)
k_half_n_whole(x, y) == k_n(x, y)
k_half_n(x, y) == k_n(x, y) \div 2

\* _karatsuba, lines 26-31: the operands of a call that returns at once.
k_is_base(x, y) ==
    bit_length(x) = 0 \/ bit_length(y) = 0 \/ bit_length(x) = 1 \/ bit_length(y) = 1

k_base_value(x, y) ==
    IF bit_length(x) = 0 \/ bit_length(y) = 0 THEN 0
    ELSE IF bit_length(x) = 1 THEN y
    ELSE x

\* _karatsuba, lines 38-44: the operands of the three recursive calls.
k_ac_args(x, y) ==
    <<_split_int(x, k_half_n(x, y))[1], _split_int(y, k_half_n(x, y))[1]>>
k_bd_args(x, y) ==
    <<_split_int(x, k_half_n(x, y))[2], _split_int(y, k_half_n(x, y))[2]>>
k_zz_args(x, y) ==
    LET ab == _split_int(x, k_half_n(x, y))
        cd == _split_int(y, k_half_n(x, y))
    IN <<ab[1] + ab[2], cd[1] + cd[2]>>

\* A frame of _karatsuba: its operands, where it stands, and what its
\* recursive calls returned.
kc_Frame(xy) == [x |-> xy[1], y |-> xy[2], pc |-> "entry", ac |-> 0, bd |-> 0, zz |-> 0]

kc_top == kc_stack[Len(kc_stack)]
kc_caller == kc_stack[Len(kc_stack) - 1]

\* The innermost frame returns value: to the call waiting for it, or to
\* karatsuba, which returns it (line 18).
kc_Return(value) ==
    IF Len(kc_stack) = 1
    THEN /\ kc_stack' = <<>>
         /\ kc_status' = "returned"
         /\ kc_result' = value
         /\ UNCHANGED <<kc_x, kc_y>>
    ELSE /\ kc_stack' =
              Take(kc_stack, Len(kc_stack) - 2) \o
              << IF kc_caller.pc = "wait_ac"
                 THEN [kc_caller EXCEPT !.ac = value, !.pc = "have_ac"]
                 ELSE IF kc_caller.pc = "wait_bd"
                 THEN [kc_caller EXCEPT !.bd = value, !.pc = "have_bd"]
                 ELSE [kc_caller EXCEPT !.zz = value, !.pc = "have_zz"] >>
         /\ UNCHANGED <<kc_x, kc_y, kc_status, kc_result>>

\* The innermost frame calls _karatsuba on xy and waits at pc.
kc_Push(pc, xy) ==
    /\ kc_stack' = Take(kc_stack, Len(kc_stack) - 1) \o
           << [kc_top EXCEPT !.pc = pc], kc_Frame(xy) >>
    /\ UNCHANGED <<kc_x, kc_y, kc_status, kc_result>>

\* karatsuba, lines 14-18: both operands non-negative, then _karatsuba(x, y).
KC_Call ==
    /\ kc_status = "idle"
    /\ kc_x >= 0
    /\ kc_y >= 0
    /\ kc_stack' = <<kc_Frame(<<kc_x, kc_y>>)>>
    /\ kc_status' = "running"
    /\ UNCHANGED <<kc_x, kc_y, kc_result>>
    /\ UNCHANGED <<ms_vars, mg_vars, cp_vars, k_vars, st_vars, fr_vars>>

\* karatsuba, lines 14-15: a negative operand fails the assertion.
KC_AssertFail ==
    /\ kc_status = "idle"
    /\ (kc_x < 0 \/ kc_y < 0)
    /\ kc_status' = "AssertionError"
    /\ UNCHANGED <<kc_x, kc_y, kc_stack, kc_result>>
    /\ UNCHANGED <<ms_vars, mg_vars, cp_vars, k_vars, st_vars, fr_vars>>

\* _karatsuba, lines 22-31: the base cases.
KC_Base ==
    /\ kc_status = "running"
    /\ kc_top.pc = "entry"
    /\ k_is_base(kc_top.x, kc_top.y)
    /\ kc_Return(k_base_value(kc_top.x, kc_top.y))
    /\ UNCHANGED <<ms_vars, mg_vars, cp_vars, k_vars, st_vars, fr_vars>>

\* _karatsuba, lines 35-42: split both operands, ac = _karatsuba(a, c).
KC_CallAC ==
    /\ kc_status = "running"
    /\ kc_top.pc = "entry"
    /\ ~k_is_base(kc_top.x, kc_top.y)
    /\ kc_Push("wait_ac", k_ac_args(kc_top.x, kc_top.y))
    /\ UNCHANGED <<ms_vars, mg_vars, cp_vars, k_vars, st_vars, fr_vars>>

\* _karatsuba, line 43: bd = _karatsuba(b, d).
KC_CallBD ==
    /\ kc_status = "running"
    /\ kc_top.pc = "have_ac"
    /\ kc_Push("wait_bd", k_bd_args(kc_top.x, kc_top.y))
    /\ UNCHANGED <<ms_vars, mg_vars, cp_vars, k_vars, st_vars, fr_vars>>

\* _karatsuba, line 44: _karatsuba(a + b, c + d).
KC_CallZZ ==
    /\ kc_status = "running"
    /\ kc_top.pc = "have_bd"
    /\ kc_Push("wait_zz", k_zz_args(kc_top.x, kc_top.y))
    /\ UNCHANGED <<ms_vars, mg_vars, cp_vars, k_vars, st_vars, fr_vars>>

\* _karatsuba, lines 44-46: zz = ... - ac - bd, and the three terms shifted
\* into place.
KC_Combine ==
    /\ kc_status = "running"
    /\ kc_top.pc = "have_zz"
    /\ LET half_n == k_half_n(kc_top.x, kc_top.y)
           zz == kc_top.zz - kc_top.ac - kc_top.bd
       IN kc_Return(shl(kc_top.ac, shl(half_n, 1)) + shl(zz, half_n) + kc_top.bd)
    /\ UNCHANGED <<ms_vars, mg_vars, cp_vars, k_vars, st_vars, fr_vars>>

(***************************************************************************)
(* strassen.py                                                             *)
(***************************************************************************)
\* A matrix is the sequence of its rows; X[i][j] is X[i-1][j-1] of the source.
mat_add(X, Y) == [i \in 1..Len(X) |-> [j \in 1..Len(X) |-> X[i][j] + Y[i][j]]]
mat_sub(X, Y) == [i \in 1..Len(X) |-> [j \in 1..Len(X) |-> X[i][j] - Y[i][j]]]

\* The slice X[r0:r1, c0:c1] (0-based, end excluded, as in the source).
mat_slice(X, r0, r1, c0, c1) ==
    [i \in 1..(r1 - r0) |-> [j \in 1..(c1 - c0) |-> X[r0 + i][c0 + j]]]

\* _next_power_of_two, line 90: 2 ** math.ceil(math.log2(n)).
ceil_log2(n) == CHOOSE k \in 0..n : 2 ^ k >= n /\ (k = 0 \/ 2 ^ (k - 1) < n)
_next_power_of_two(n) == 2 ^ ceil_log2(n)

\* _pad, lines 102-104: X in the top left of a side_length square of zeros.
_pad(X, side_length) ==
    [i \in 1..side_length |-> [j \in 1..side_length |->
        IF i <= Len(X) /\ j <= Len(X) THEN X[i][j] ELSE 0]]

\* _quadrants, lines 114-115.
_quadrants(X) ==
    LET n == Len(X)
        k == n \div 2
    IN << mat_slice(X, 0, k, 0, k), mat_slice(X, 0, k, k, n),
          mat_slice(X, k, n, 0, k), mat_slice(X, k, n, k, n) >>

\* _strassen, lines 68-73: the four quadrants of the result put together.
\* np.zeros makes the result an array of float64, which holds every integer
\* below 2^53 exactly; the cells of this model stay far below that.
mat_assemble(n, tl, tr, bl, br) ==
    LET k == n \div 2
    IN [i \in 1..n |-> [j \in 1..n |->
          IF i <= k
          THEN IF j <= k THEN tl[i][j] ELSE tr[i][j - k]
          ELSE IF j <= k THEN bl[i - k][j] ELSE br[i - k][j - k]]]

\* _strassen, line 72: the bottom right quadrant, p1 + p5 - p3 - p7.
bottom_right_sign_slip(p1, p5, p3, p7) == mat_add(mat_sub(mat_add(p1, p5), p3), p7)
bottom_right(p1, p5, p3, p7) == mat_sub(mat_sub(mat_add(p1, p5), p3), p7)

\* _strassen, lines 41-73.
RECURSIVE _strassen(_, _)
_strassen(A, B) ==
    LET n == Len(A)
    IN IF n = 1 THEN << <<A[1][1] * B[1][1]>> >>
       ELSE LET qa == _quadrants(A)
                qb == _quadrants(B)
                a == qa[1]
                b == qa[2]
                c == qa[3]
                d == qa[4]
                e == qb[1]
                f == qb[2]
                g == qb[3]
                h == qb[4]
                p1 == _strassen(a, mat_sub(f, h))
                p2 == _strassen(mat_add(a, b), h)
                p3 == _strassen(mat_add(c, d), e)
                p4 == _strassen(d, mat_sub(g, e))
                p5 == _strassen(mat_add(a, d), mat_add(e, h))
                p6 == _strassen(mat_sub(b, d), mat_add(g, h))
                p7 == _strassen(mat_sub(a, c), mat_add(e, f))
            IN mat_assemble(n,
                   mat_add(mat_sub(mat_add(p5, p4), p2), p6),
                   mat_add(p1, p2),
                   mat_add(p3, p4),
                   bottom_right(p1, p5, p3, p7))

\* strassen, lines 30-37: pad to a power of two, multiply, cut back.
strassen(A, B) ==
    LET n_orig == Len(A)
        n_new == _next_power_of_two(n_orig)
    IN mat_slice(_strassen(_pad(A, n_new), _pad(B, n_new)), 0, n_orig, 0, n_orig)

\* strassen, lines 27-37: both matrices square, of the same side.
ST_Call ==
    /\ st_status = "idle"
    /\ Len(st_A) = Len(st_B)
    /\ st_result' = strassen(st_A, st_B)
    /\ st_status' = "returned"
    /\ UNCHANGED <<st_A, st_B>>
    /\ UNCHANGED <<ms_vars, mg_vars, cp_vars, k_vars, kc_vars, fr_vars>>

\* strassen, line 29: matrices of different sides fail the assertion.
ST_AssertFail ==
    /\ st_status = "idle"
    /\ Len(st_A) # Len(st_B)
    /\ st_status' = "AssertionError"
    /\ UNCHANGED <<st_A, st_B, st_result>>
    /\ UNCHANGED <<ms_vars, mg_vars, cp_vars, k_vars, kc_vars, fr_vars>>

(***************************************************************************)
(* The two merge functions called on their own.                            *)
(***************************************************************************)
MG_Merge ==
    /\ mg_status = "idle"
    /\ mg_fn = "mergesort"
    /\ mg_result' = merge(mg_a, mg_b)
    /\ mg_status' = "returned"
    /\ UNCHANGED <<mg_fn, mg_a, mg_b>>
    /\ UNCHANGED <<ms_vars, cp_vars, k_vars, st_vars, kc_vars, fr_vars>>

MG_ClosestMerge ==
    /\ mg_status = "idle"
    /\ mg_fn = "closestpoints"
    /\ mg_result' = cp_merge(mg_a, mg_b)
    /\ mg_status' = "returned"
    /\ UNCHANGED <<mg_fn, mg_a, mg_b>>
    /\ UNCHANGED <<ms_vars, cp_vars, k_vars, st_vars, kc_vars, fr_vars>>

(***************************************************************************)
(* The same functions on list objects.  A Python list is an object with an *)
(* identity: a name holds a reference, slicing and sorted() make a new     *)
(* object, append and extend change the object they are called on.  The    *)
(* heap is the sequence of all list objects; a reference is an index.      *)
(***************************************************************************)
\* A new list object holding val; its reference is the new length.
hp_new(heap, val) == Append(heap, val)

\* x = x[1:] (mergesort.py:43, 46; closestpoints.py:104, 107): the name x is
\* bound to a new list, the old one is left as it is.
hp_consume_in_place(heap, x) == [heap |-> [heap EXCEPT ![x] = Tail(@)], ref |-> x]
hp_consume(heap, x) == [heap |-> hp_new(heap, Tail(heap[x])), ref |-> Len(heap) + 1]

\* result.append(x[0]); x = x[1:], where x is the local a or b of merge.
hp_merge_take(m, x) ==
    LET appended == [m.heap EXCEPT ![m.result] = Append(@, m.heap[m[x]][1])]
        consumed == hp_consume(appended, m[x])
    IN [m EXCEPT !.heap = consumed.heap, ![x] = consumed.ref]

\* The comparison of either merge (mergesort.py:41, closestpoints.py:102).
hp_takes_a(fn, a, b) ==
    IF fn = "mergesort" THEN merge_takes_a(a, b) ELSE cp_merge_takes_a(a, b)

\* The while loop of either merge, then result.extend of the leftover.
RECURSIVE hp_merge_loop(_, _)
hp_merge_loop(m, fn) ==
    IF m.heap[m.a] # <<>> /\ m.heap[m.b] # <<>>
    THEN IF hp_takes_a(fn, m.heap[m.a], m.heap[m.b])
         THEN hp_merge_loop(hp_merge_take(m, "a"), fn)
         ELSE hp_merge_loop(hp_merge_take(m, "b"), fn)
    ELSE IF m.heap[m.a] # <<>>
         THEN [m EXCEPT !.heap[m.result] = @ \o m.heap[m.a]]
         ELSE [m EXCEPT !.heap[m.result] = @ \o m.heap[m.b]]

\* merge(a, b) of mergesort.py (fn = "mergesort") or of closestpoints.py:
\* result = [] is a new list, and the loop fills it.
hp_merge(heap, a, b, fn) ==
    LET m == hp_merge_loop([heap |-> hp_new(heap, <<>>), a |-> a, b |-> b,
                            result |-> Len(heap) + 1], fn)
    IN [heap |-> m.heap, ref |-> m.result]

\* mergesort, lines 22-29: a list of length 1 is returned itself; otherwise
\* l[:mid] and l[mid:] are new lists, sorted and merged.
RECURSIVE hp_mergesort(_, _)
hp_mergesort(heap, l) ==
    IF Len(heap[l]) = 1 THEN [heap |-> heap, ref |-> l]
    ELSE LET heap_a == hp_new(heap, ms_first_half(heap[l]))
             heap_b == hp_new(heap_a, ms_second_half(heap[l]))
             a == hp_mergesort(heap_b, Len(heap_a))
             b == hp_mergesort(a.heap, Len(heap_b))
         IN hp_merge(b.heap, a.ref, b.ref, "mergesort")

\* _closest_pair, lines 29-89: the lists it makes, and the three values it
\* returns, the third as a reference.
RECURSIVE hp__closest_pair(_, _)
hp__closest_pair(heap, points) ==
    LET pts == heap[points]
    IN IF Len(pts) = 2
       THEN [heap |-> hp_new(heap, base2_ys(pts)), p |-> pts[1], q |-> pts[2],
             ys |-> Len(heap) + 1]
       ELSE IF Len(pts) = 1
       THEN [heap |-> heap, p |-> None, q |-> None, ys |-> points]
       ELSE LET heap_l == hp_new(heap, Take(pts, cp_midpoint(pts)))
                heap_r == hp_new(heap_l, Drop(pts, cp_midpoint(pts)))
                left == hp__closest_pair(heap_r, Len(heap_l))
                right == hp__closest_pair(left.heap, Len(heap_r))
                y_sorted == hp_merge(right.heap, left.ys, right.ys, "closestpoints")
                c == combine(pts,
                             [p |-> left.p, q |-> left.q, ys |-> right.heap[left.ys]],
                             [p |-> right.p, q |-> right.q, ys |-> right.heap[right.ys]])
            IN [heap |-> hp_new(y_sorted.heap, c.strip), p |-> c.p, q |-> c.q,
                ys |-> y_sorted.ref]

\* closest_pair, lines 17-18: sorted(points, ...) is a new list.
hp_closest_pair(heap, points) ==
    hp__closest_pair(hp_new(heap, sorted_by(heap[points], 1)), Len(heap) + 1)

FR_Mergesort ==
    /\ fr_status = "idle"
    /\ fr_fn = "mergesort"
    /\ LET r == hp_mergesort(fr_heap, fr_args[1])
       IN fr_heap' = r.heap /\ fr_ret' = <<r.ref>>
    /\ fr_status' = "returned"
    /\ UNCHANGED <<fr_fn, fr_args, fr_before>>
    /\ UNCHANGED <<ms_vars, mg_vars, cp_vars, k_vars, st_vars, kc_vars>>

FR_Merge ==
    /\ fr_status = "idle"
    /\ fr_fn = "merge"
    /\ LET r == hp_merge(fr_heap, fr_args[1], fr_args[2], "mergesort")
       IN fr_heap' = r.heap /\ fr_ret' = <<r.ref>>
    /\ fr_status' = "returned"
    /\ UNCHANGED <<fr_fn, fr_args, fr_before>>
    /\ UNCHANGED <<ms_vars, mg_vars, cp_vars, k_vars, st_vars, kc_vars>>

FR_ClosestMerge ==
    /\ fr_status = "idle"
    /\ fr_fn = "cp_merge"
    /\ LET r == hp_merge(fr_heap, fr_args[1], fr_args[2], "closestpoints")
       IN fr_heap' = r.heap /\ fr_ret' = <<r.ref>>
    /\ fr_status' = "returned"
    /\ UNCHANGED <<fr_fn, fr_args, fr_before>>
    /\ UNCHANGED <<ms_vars, mg_vars, cp_vars, k_vars, st_vars, kc_vars>>

FR_ClosestPair ==
    /\ fr_status = "idle"
    /\ fr_fn = "closest_pair"
    /\ LET r == hp_closest_pair(fr_heap, fr_args[1])
       IN fr_heap' = r.heap /\ fr_ret' = <<r.p, r.q>>
    /\ fr_status' = "returned"
    /\ UNCHANGED <<fr_fn, fr_args, fr_before>>
    /\ UNCHANGED <<ms_vars, mg_vars, cp_vars, k_vars, st_vars, kc_vars>>

(***************************************************************************)
(* Inputs and specifications.                                              *)
(***************************************************************************)
\* The points of the grid 0..MaxX by 0..MaxY.
GridPts == (0..MaxX) \X (0..MaxY)

\* Nine points on which the strip of the top call spans every point: the
\* halves' best squared distance is 16, so the strip reaches 16 to each side.
WideStrip ==
    << <<5, 0>>, <<-4, 1>>, <<0, 0>>, <<13, 0>>, <<1, 1>>,
       <<-12, 1>>, <<9, 0>>, <<17, 0>>, <<-8, 1>> >>

\* The subsequence of s at the positions in keep.
SubList(s, keep) ==
    LET pick(i) == i \in keep
        idx == SelectSeq([i \in 1..Len(s) |-> i], pick)
    IN [i \in 1..Len(idx) |-> s[idx[i]]]

\* The lists closest_pair is called on: every list of 1..MaxPts grid points,
\* and every sublist of WideStrip.
ClosestInputs ==
    (SeqsUpTo(GridPts, MaxPts) \ {<<>>}) \cup
    {SubList(WideStrip, keep) : keep \in (SUBSET (1..Len(WideStrip))) \ {{}}}

SortedElems == {s \in SeqsUpTo(Elems, MaxMergeLen) : IsSorted(s)}
SortedByY(s) == \A i \in 1..(Len(s) - 1) : s[i][2] <= s[i + 1][2]
\* Points handed to closestpoints.merge on its own: two of each y, which x
\* tells apart.
MergePts == {0, 1} \X (0..MaxY)
YSortedPts == {s \in SeqsUpTo(MergePts, MaxMergeLen) : SortedByY(s)}

\* Square matrices of side n with at most MaxNonZero cells that are not 0,
\* each of them in -MaxCell..MaxCell.
Cells(n) == (1..n) \X (1..n)
NonZero == (-MaxCell..MaxCell) \ {0}
SparseFills(n) ==
    UNION {[S -> NonZero] : S \in {T \in SUBSET Cells(n) : Cardinality(T) <= MaxNonZero}}
Matrices(n) ==
    {[i \in 1..n |-> [j \in 1..n |->
        IF <<i, j>> \in DOMAIN fill THEN fill[<<i, j>>] ELSE 0]] : fill \in SparseFills(n)}
MatricesUpTo(side) == UNION {Matrices(n) : n \in 1..side}

SortIdle ==
    /\ ms_l = <<>>
    /\ ms_stack = <<>>
    /\ ms_status = "unused"
    /\ ms_result = <<>>

MergeIdle ==
    /\ mg_fn = "none"
    /\ mg_a = <<>>
    /\ mg_b = <<>>
    /\ mg_status = "unused"
    /\ mg_result = <<>>

cp_NoReturn == [points |-> <<>>, p |-> None, q |-> None, ys |-> <<>>]

ClosestIdle ==
    /\ cp_points = <<>>
    /\ cp_stack = <<>>
    /\ cp_status = "unused"
    /\ cp_result = <<>>
    /\ cp_ret = cp_NoReturn

KaratsubaIdle ==
    /\ k_x = 0
    /\ k_y = 0
    /\ k_status = "unused"
    /\ k_result = 0

StrassenIdle ==
    /\ st_A = <<>>
    /\ st_B = <<>>
    /\ st_status = "unused"
    /\ st_result = <<>>

KaratsubaCallsIdle ==
    /\ kc_x = 0
    /\ kc_y = 0
    /\ kc_stack = <<>>
    /\ kc_status = "unused"
    /\ kc_result = 0

FrameIdle ==
    /\ fr_fn = "none"
    /\ fr_heap = <<>>
    /\ fr_args = <<>>
    /\ fr_before = <<>>
    /\ fr_status = "unused"
    /\ fr_ret = <<>>

SortInit ==
    /\ ms_l \in SeqsUpTo(Elems, MaxLen)
    /\ ms_stack = <<>>
    /\ ms_status = "idle"
    /\ ms_result = <<>>
    /\ MergeIdle /\ ClosestIdle /\ KaratsubaIdle /\ StrassenIdle /\ KaratsubaCallsIdle /\ FrameIdle

SortNext ==
    \/ MS_Call
    \/ MS_Base
    \/ MS_Split
    \/ MS_CallB
    \/ MS_Merge
    \/ MS_RecursionError

SpecSort == SortInit /\ [][SortNext]_vars

MergeInit ==
    /\ \/ mg_fn = "mergesort" /\ mg_a \in SortedElems /\ mg_b \in SortedElems
       \/ mg_fn = "closestpoints" /\ mg_a \in YSortedPts /\ mg_b \in YSortedPts
    /\ mg_status = "idle"
    /\ mg_result = <<>>
    /\ SortIdle /\ ClosestIdle /\ KaratsubaIdle /\ StrassenIdle /\ KaratsubaCallsIdle /\ FrameIdle

MergeNext ==
    \/ MG_Merge
    \/ MG_ClosestMerge

SpecMerge == MergeInit /\ [][MergeNext]_vars

ClosestInit ==
    /\ cp_points \in ClosestInputs
    /\ cp_stack = <<>>
    /\ cp_status = "idle"
    /\ cp_result = <<>>
    /\ cp_ret = cp_NoReturn
    /\ SortIdle /\ MergeIdle /\ KaratsubaIdle /\ StrassenIdle /\ KaratsubaCallsIdle /\ FrameIdle

ClosestNext ==
    \/ CP_Call
    \/ CP_AssertFail
    \/ CP_Base2
    \/ CP_Base1
    \/ CP_Split
    \/ CP_CallRight
    \/ CP_Combine

SpecClosest == ClosestInit /\ [][ClosestNext]_vars

KaratsubaInit ==
    /\ k_x \in -1..MaxInt
    /\ k_y \in -1..MaxInt
    /\ k_status = "idle"
    /\ k_result = 0
    /\ SortIdle /\ MergeIdle /\ ClosestIdle /\ StrassenIdle /\ KaratsubaCallsIdle /\ FrameIdle

KaratsubaNext ==
    \/ K_Call
    \/ K_AssertFail

SpecKaratsuba == KaratsubaInit /\ [][KaratsubaNext]_vars

StrassenInit ==
    /\ st_A \in MatricesUpTo(MaxN)
    /\ st_B \in Matrices(Len(st_A)) \cup {<< <<0, 0>>, <<0, 0>> >>}
    /\ st_status = "idle"
    /\ st_result = <<>>
    /\ SortIdle /\ MergeIdle /\ ClosestIdle /\ KaratsubaIdle /\ KaratsubaCallsIdle /\ FrameIdle

StrassenNext ==
    \/ ST_Call
    \/ ST_AssertFail

SpecStrassen == StrassenInit /\ [][StrassenNext]_vars

KaratsubaCallsInit ==
    /\ kc_x \in -1..MaxCallInt
    /\ kc_y \in -1..MaxCallInt
    /\ kc_stack = <<>>
    /\ kc_status = "idle"
    /\ kc_result = 0
    /\ SortIdle /\ MergeIdle /\ ClosestIdle /\ KaratsubaIdle /\ StrassenIdle /\ FrameIdle

KaratsubaCallsNext ==
    \/ KC_Call
    \/ KC_AssertFail
    \/ KC_Base
    \/ KC_CallAC
    \/ KC_CallBD
    \/ KC_CallZZ
    \/ KC_Combine

SpecKaratsubaCalls == KaratsubaCallsInit /\ [][KaratsubaCallsNext]_vars

\* The elements of the lists followed as objects: the ints.
FrameElems == {e \in Elems : e.t = "int"}
FrameSorted == {s \in SeqsUpTo(FrameElems, MaxMergeLen) : IsSorted(s)}

\* The calls whose lists are followed as objects: mergesort on a list of one
\* element or more (on [] it does not return), either merge on two sorted
\* lists or on one sorted list passed twice, closest_pair on two points or
\* more.
FrameInit ==
    /\ \/ /\ fr_fn = "mergesort"
          /\ \E l \in SeqsUpTo(FrameElems, MaxLen) \ {<<>>} : fr_heap = <<l>>
          /\ fr_args = <<1>>
       \/ /\ fr_fn = "merge"
          /\ \/ \E a \in FrameSorted, b \in FrameSorted :
                   fr_heap = <<a, b>> /\ fr_args = <<1, 2>>
             \/ \E a \in FrameSorted : fr_heap = <<a>> /\ fr_args = <<1, 1>>
       \/ /\ fr_fn = "cp_merge"
          /\ \/ \E a \in YSortedPts, b \in YSortedPts :
                   fr_heap = <<a, b>> /\ fr_args = <<1, 2>>
             \/ \E a \in YSortedPts : fr_heap = <<a>> /\ fr_args = <<1, 1>>
       \/ /\ fr_fn = "closest_pair"
          /\ \E points \in {c \in ClosestInputs : Len(c) >= 2} : fr_heap = <<points>>
          /\ fr_args = <<1>>
    /\ fr_before = fr_heap
    /\ fr_status = "idle"
    /\ fr_ret = <<>>
    /\ SortIdle /\ MergeIdle /\ ClosestIdle /\ KaratsubaIdle /\ StrassenIdle /\ KaratsubaCallsIdle

FrameNext ==
    \/ FR_Mergesort
    \/ FR_Merge
    \/ FR_ClosestMerge
    \/ FR_ClosestPair

SpecFrame == FrameInit /\ [][FrameNext]_vars

(***************************************************************************)
(* mergesort and merge: the claims.                                        *)
(***************************************************************************)
\* C4: for every list l of length >= 1, mergesort(l) returns a list that is
\* non-decreasing and holds the elements of l with the same multiplicities.
C4_SortedPermutation ==
    (ms_status = "returned" /\ Len(ms_l) >= 1) =>
        /\ IsSorted(ms_result)
        /\ SameBag(ms_result, ms_l)

\* A list of full length that starts out of order and holds an int and a
\* float of equal value has been sorted and returned.
C4_Witness ==
    /\ ms_status = "returned"
    /\ Len(ms_l) = MaxLen
    /\ ~LE(ms_l[1], ms_l[MaxLen])
    /\ \E i, j \in 1..MaxLen : ms_l[i].v = ms_l[j].v /\ ms_l[i].t # ms_l[j].t

\* C6: every call of mergesort, on a list of any length (0 included), returns
\* or fails at entry: each recursive call is on a strictly shorter list than
\* its caller's, and the stack never grows until the interpreter gives up.
C6_EveryCallEnds ==
    /\ ms_status # "RecursionError"
    /\ \A i \in 2..Len(ms_stack) : Len(ms_stack[i].l) < Len(ms_stack[i - 1].l)

\* C5: for sorted a and b (either may be empty), mergesort's merge(a, b) is
\* sorted and holds exactly the elements of a and of b; merge(a, []) is a and
\* merge([], b) is b.
C5_MergeSortedUnion ==
    (mg_status = "returned" /\ mg_fn = "mergesort") =>
        /\ IsSorted(mg_result)
        /\ SameBag(mg_result, mg_a \o mg_b)
        /\ (mg_b = <<>> => mg_result = mg_a)
        /\ (mg_a = <<>> => mg_result = mg_b)

\* Two lists that interleave have been merged: the head of b lies strictly
\* between the first and the last of a.
C5_Witness ==
    /\ mg_status = "returned"
    /\ mg_fn = "mergesort"
    /\ Len(mg_a) >= 2
    /\ Len(mg_b) >= 1
    /\ mg_a[1].v < mg_b[1].v
    /\ mg_b[1].v < mg_a[Len(mg_a)].v

\* The key either merge compares: the value of a number, the y of a point.
MergeKey(e) == IF mg_fn = "mergesort" THEN e.v ELSE e[2]

\* C8: both merges are stable.  For sorted a and b, a[i] lands behind the
\* elements of a before it and the elements of b with a strictly smaller key,
\* b[j] behind the elements of b before it and the elements of a with a
\* smaller or equal key: equal keys keep a's element first, and the order
\* within a and within b is kept.
C8_MergeStable ==
    mg_status = "returned" =>
        /\ Len(mg_result) = Len(mg_a) + Len(mg_b)
        /\ \A i \in 1..Len(mg_a) :
             mg_result[i + Cardinality({j \in 1..Len(mg_b) :
                 MergeKey(mg_b[j]) < MergeKey(mg_a[i])})] = mg_a[i]
        /\ \A j \in 1..Len(mg_b) :
             mg_result[j + Cardinality({i \in 1..Len(mg_a) :
                 MergeKey(mg_a[i]) <= MergeKey(mg_b[j])})] = mg_b[j]

\* Lists of two or more have been merged in which an element of a and a
\* different element of b have the same key.
C8_Witness ==
    /\ mg_status = "returned"
    /\ Len(mg_a) >= 2
    /\ Len(mg_b) >= 2
    /\ \E i \in 1..Len(mg_a), j \in 1..Len(mg_b) :
          /\ MergeKey(mg_a[i]) = MergeKey(mg_b[j])
          /\ mg_a[i] # mg_b[j]

(***************************************************************************)
(* closest_pair: the claims.                                               *)
(***************************************************************************)
\* The least squared distance over all pairs of distinct positions of s.
BruteForceMin(s) ==
    LET pairs == {ij \in (1..Len(s)) \X (1..Len(s)) : ij[1] < ij[2]}
        dist(ij) == distance(s[ij[1]], s[ij[2]])
    IN dist(CHOOSE ij \in pairs : \A kl \in pairs : dist(ij) <= dist(kl))

\* C1: for every list of at least 2 points, the squared distance between the
\* two points closest_pair returns is the least squared distance over all
\* pairs of distinct positions of the list.
C1_ReturnsClosestPair ==
    cp_status = "returned" =>
        distance(cp_result[1], cp_result[2]) = BruteForceMin(cp_points)

\* C7: the pair closest_pair returns has the point of smaller x first, as
\* has the pair every call of _closest_pair on two or more points returns,
\* from the base case, from a half or from the strip.
C7_SmallerXFirst ==
    /\ cp_status = "returned" => cp_result[1][1] <= cp_result[2][1]
    /\ cp_ret.p # None => cp_ret.p[1] <= cp_ret.q[1]

\* A pair found by the strip search of the top call in the other order: p
\* lies only in the left half and q only in the right, and q comes before p
\* in y order.
C7_Witness ==
    /\ cp_status = "returned"
    /\ Len(cp_points) >= 3
    /\ cp_result[1][1] < cp_result[2][1]
    /\ cp_result[1][2] > cp_result[2][2]
    /\ LET xs == sorted_by(cp_points, 1)
           left == Take(xs, cp_midpoint(xs))
           right == Drop(xs, cp_midpoint(xs))
       IN /\ Count(left, cp_result[1]) > 0
          /\ Count(right, cp_result[1]) = 0
          /\ Count(right, cp_result[2]) > 0
          /\ Count(left, cp_result[2]) = 0

\* C9: in every combine step, two points of the strip that are closer than
\* the best distance found are at most 7 places apart in the strip, so that
\* the window of 7 misses no closer pair.
C9_WindowOfSevenSuffices ==
    (cp_status = "running" /\ cp_top.pc = "have_right") =>
        LET c == combine(cp_top.points, cp_top.left, cp_top.right)
        IN \A i, j \in 1..Len(c.strip) :
              (i < j /\ dist_lt(distance(c.strip[i], c.strip[j]), c.best_d))
                  => j - i <= strip_window

\* C10: the third value _closest_pair returns, at both base cases and at
\* every level, holds the points of that call's argument, non-decreasing in y.
C10_ThirdValueYSorted ==
    cp_ret # cp_NoReturn =>
        /\ SameBag(cp_ret.ys, cp_ret.points)
        /\ SortedByY(cp_ret.ys)

\* A recursive call below the top one, on three or more points that are not
\* in y order, has returned from its combine step.
C10_Witness ==
    /\ cp_status = "running"
    /\ Len(cp_stack) >= 1
    /\ Len(cp_ret.points) >= 3
    /\ ~SortedByY(cp_ret.points)

(***************************************************************************)
(* karatsuba and strassen: the claims.                                     *)
(***************************************************************************)
\* C2: for all non-negative integers x and y, karatsuba(x, y) is x * y; so
\* karatsuba(x, 0) is 0 and karatsuba(x, 1) is x.
C2_KaratsubaIsProduct ==
    k_status = "returned" =>
        /\ k_result = k_x * k_y
        /\ (k_y = 0 => k_result = 0)
        /\ (k_y = 1 => k_result = k_x)

\* Two operands of seven bits, so that _karatsuba recursed more than once and
\* the sum of the halves of x carried, have been multiplied.
C2_Witness ==
    /\ k_status = "returned"
    /\ bit_length(k_x) = bit_length(k_y)
    /\ bit_length(k_x) >= 7
    /\ LET ab == _split_int(k_x, bit_length(k_x) \div 2)
       IN bit_length(ab[1] + ab[2]) > bit_length(ab[1])

\* The product of A and B by the triple loop.
RECURSIVE DotRowCol(_, _, _, _, _)
DotRowCol(A, B, i, j, k) ==
    IF k = 0 THEN 0 ELSE DotRowCol(A, B, i, j, k - 1) + A[i][k] * B[k][j]

NaiveProduct(A, B) ==
    [i \in 1..Len(A) |-> [j \in 1..Len(A) |-> DotRowCol(A, B, i, j, Len(A))]]

k_measure(f) == f.x + f.y

\* C11: the recursion of _karatsuba ends for all non-negative x and y: every
\* recursive call, on (a, c), on (b, d) and on (a + b, c + d), has operands
\* that are not negative and whose sum is strictly smaller than the sum of
\* its caller's operands.
C11_CallsGetSmaller ==
    /\ \A i \in 1..Len(kc_stack) : kc_stack[i].x >= 0 /\ kc_stack[i].y >= 0
    /\ \A i \in 2..Len(kc_stack) : k_measure(kc_stack[i]) < k_measure(kc_stack[i - 1])

\* A call on (a + b, c + d) is running whose first operand is as long as its
\* caller's, below a top call whose operands differ in length by three bits
\* or more.
C11_Witness ==
    /\ kc_status = "running"
    /\ Len(kc_stack) >= 2
    /\ kc_caller.pc = "wait_zz"
    /\ bit_length(kc_top.x) = bit_length(kc_caller.x)
    /\ bit_length(kc_y) >= bit_length(kc_x) + 3

====
